---- MODULE Spec2Model ----
(***************************************************************************)
(* Worker lifecycle and graceful shutdown of the Gunicorn workers of       *)
(* uvicorn/workers.py: UvicornWorker (asyncio / uvloop event loop,         *)
(* callback and task scheduling) and UvicornTrioWorker (trio nursery,      *)
(* structured concurrency).                                                *)
(*                                                                         *)
(* One behaviour of the model is one worker process.  `kind` says which    *)
(* of the two worker classes the process runs.  Every action is the code   *)
(* a task or callback runs between two suspension points (awaits): the     *)
(* event loop is single threaded, so that code is atomic, and tasks        *)
(* interleave only at awaits.                                              *)
(***************************************************************************)
EXTENDS Integers, Sequences, FiniteSets, TLC

\* ------------------------------------------------------------------ bounds
NumSockets == 2         \* len(self.sockets): the pre-bound sockets handed over
MaxRequestsLimit == 1   \* the positive value of cfg.max_requests that is tried

Sockets == 1..NumSockets
RequestCap == MaxRequestsLimit + 1   \* requests the environment completes in all

\* ------------------------------------------------------- program constants
NotifyPeriod == 10      \* cycle = (cycle + 1) % 10

Kinds == {"asyncio", "trio"}
Signals == {"SIGQUIT", "SIGTERM", "SIGINT", "SIGWINCH", "SIGUSR1", "SIGABRT"}

\* The signals whose handler ends with a call of a supervisor hook:
\* handle_quit calls cfg.worker_int, handle_abort calls cfg.worker_abort.
HookSignals == {"SIGQUIT", "SIGINT", "SIGABRT"}

VARIABLES
    kind,            \* which worker class runs: "asyncio" or "trio"
    max_requests,    \* self.max_requests (0: no limit)
    ppid,            \* self.ppid, the parent recorded at startup
    os_ppid,         \* what os.getppid() returns now
    alive,           \* self.alive
    exit_code,       \* self.exit_code
    killed,          \* self.killed (trio.Event), trio worker only
    servers,         \* self.servers: the sockets whose (server, state) was appended
    listener,        \* per socket: "unstarted", "listening", "draining", "closed"
    total_requests,  \* per socket: state["total_requests"]
    accepted,        \* the sockets on which a connection has been accepted
    create_pc,       \* create_servers: "init", "await", "done", "failed"
    create_i,        \* create_servers: the socket whose create_server is awaited
    tick_pc,         \* tick: "start", "sleep", "wait_closed", "done" ("none": trio)
    cycle,           \* tick: the local `cycle`
    ticks,           \* history: tick bodies run since the last notify() (or the start)
    notified,        \* history: the last tick body called self.notify()
    drain_i,         \* tick: index in self.servers of the server being drained
    log,             \* tick: the shutdown reason it logged with self.log.info
    run_pc,          \* run(): "run_forever", "stopping", "nursery", "unwind",
                     \*        "error_unwind", "returned", "raised"
    sig_task,        \* trio handle_signals task: "scheduled", "running", "done"
    proc,            \* the process: "running", "exited", "crashed"
    exit_status,     \* the code given to sys.exit (-1: none yet)
    abort_seen,      \* history: SIGABRT was delivered before loop.stop() / while the
                     \*          nursery had not finished unwinding
    abort_ran,       \* history: handle_abort was invoked
    closes,          \* history: per socket, how often its server was closed
    stops            \* history: how often loop.stop() / cancel_scope.cancel() ran

vars == <<kind, max_requests, ppid, os_ppid, alive, exit_code, killed, servers,
          listener, total_requests, accepted, create_pc, create_i, tick_pc, cycle,
          ticks, notified, drain_i, log, run_pc, sig_task, proc, exit_status,
          abort_seen, abort_ran, closes, stops>>

cfgVars == <<kind, max_requests, ppid>>
stateVars == <<alive, exit_code, killed>>
createVars == <<create_pc, create_i>>
connVars == <<total_requests, accepted>>
cycleVars == <<cycle, ticks, notified>>
tickVars == <<tick_pc, cycleVars, drain_i, log>>
sigHist == <<abort_seen, abort_ran>>
histVars == <<sigHist, closes, stops>>

\* ------------------------------------------------------------------- Init
\* UvicornWorker.__init__ / UvicornTrioWorker.__init__, and the fields the
\* Gunicorn base class sets before run(): alive, ppid, max_requests, sockets.
Init ==
    /\ kind \in Kinds
    /\ max_requests \in {0, MaxRequestsLimit}
    /\ ppid = "arbiter"
    /\ os_ppid = "arbiter"
    /\ alive = TRUE
    /\ exit_code = 0
    /\ killed = FALSE
    /\ servers = <<>>
    /\ listener = [s \in Sockets |-> "unstarted"]
    /\ total_requests = [s \in Sockets |-> 0]
    /\ accepted = {}
    /\ create_pc = "init"
    /\ create_i = 0
    /\ tick_pc = IF kind = "asyncio" THEN "start" ELSE "none"
    /\ cycle = 0
    /\ ticks = 0
    /\ notified = FALSE
    /\ drain_i = 0
    /\ log = "none"
    /\ run_pc = IF kind = "asyncio" THEN "run_forever" ELSE "nursery"
    /\ sig_task = IF kind = "trio" THEN "scheduled" ELSE "none"
    /\ proc = "running"
    /\ exit_status = -1
    /\ abort_seen = FALSE
    /\ abort_ran = FALSE
    /\ closes = [s \in Sockets |-> 0]
    /\ stops = 0

\* ------------------------------------------------------- signal handlers
\* The fields of the worker a signal handler reads and writes.
WorkerState == [alive |-> alive, exit_code |-> exit_code, killed |-> killed]

\* UvicornWorker.handle_quit: self.alive = False; self.cfg.worker_int(self)
handle_quit(w) == [w EXCEPT !.alive = FALSE]

\* UvicornWorker.handle_abort: self.alive = False; self.exit_code = 1;
\* self.cfg.worker_abort(self)
handle_abort(w) == [w EXCEPT !.alive = FALSE, !.exit_code = 1]

\* UvicornTrioWorker.handle_quit: self.alive = False; self.killed.set();
\* self.cfg.worker_int(self)
trio_handle_quit(w) == [w EXCEPT !.alive = FALSE, !.killed = TRUE]

\* UvicornTrioWorker.handle_abort: self.alive = False; self.killed.set();
\* self.exit_code = 1; self.cfg.worker_abort(self)
trio_handle_abort(w) == [w EXCEPT !.alive = FALSE, !.killed = TRUE, !.exit_code = 1]

\* handle_exit is not overridden by either worker class: the handler bound to
\* SIGTERM is the one inherited from the Gunicorn base Worker, which records
\* the graceful exit request in self.alive and does nothing else.
handle_exit(w) == [w EXCEPT !.alive = FALSE]

\* Mutant: a window change revives the worker.
handle_winch_revives(w) == [w EXCEPT !.alive = TRUE]

\* handle_winch / handle_usr1: inherited too; they leave alive, exit_code and
\* killed alone (window change is ignored, SIGUSR1 reopens the log files).
handle_winch(w) == w
handle_usr1(w) == w

\* init_signals: the loop.add_signal_handler table of UvicornWorker.
asyncio_signals(sig, w) ==
    CASE sig = "SIGQUIT"  -> handle_quit(w)
      [] sig = "SIGTERM"  -> handle_exit(w)
      [] sig = "SIGINT"   -> handle_quit(w)
      [] sig = "SIGWINCH" -> handle_winch(w)
      [] sig = "SIGUSR1"  -> handle_usr1(w)
      [] sig = "SIGABRT"  -> handle_abort(w)

\* handle_signals: the `signals` dict of UvicornTrioWorker.
trio_signals(sig, w) ==
    CASE sig = "SIGQUIT"  -> trio_handle_quit(w)
      [] sig = "SIGTERM"  -> handle_exit(w)
      [] sig = "SIGINT"   -> trio_handle_quit(w)
      [] sig = "SIGWINCH" -> handle_winch(w)
      [] sig = "SIGUSR1"  -> handle_usr1(w)
      [] sig = "SIGABRT"  -> trio_handle_abort(w)

\* handle_signals: `for signum in batch: signals[signum](signum, None)`.  The
\* handlers of one batch run one after the other, in the set's iteration order.
RECURSIVE trio_run_batch(_, _)
trio_run_batch(batch, w) ==
    IF batch = {} THEN w
    ELSE LET signum == CHOOSE x \in batch : TRUE
         IN  trio_run_batch(batch \ {signum}, trio_signals(signum, w))

\* ---------------------------------------------------------------- helpers
Running == proc = "running"

\* The asyncio loop runs callbacks: inside run_forever(), also for the rest of
\* the current batch of ready callbacks after loop.stop() was called.
LoopActive == kind = "asyncio" /\ Running /\ run_pc \in {"run_forever", "stopping"}

\* The body of `async with trio.open_nursery()` is running, not cancelled.
NurseryOpen == kind = "trio" /\ Running /\ run_pc = "nursery"

RECURSIVE SumRequests(_)
SumRequests(srv) ==
    IF srv = <<>> THEN 0
    ELSE total_requests[Head(srv)] + SumRequests(Tail(srv))

\* req_count = sum([state["total_requests"] for server, state in self.servers])
req_count == SumRequests(servers)

\* Mutant: a count equal to the limit recycles the worker too.
max_requests_exceeded_at_limit == max_requests # 0 /\ req_count >= max_requests

\* Mutant: the limit is compared one too high.
max_requests_exceeded_late == max_requests # 0 /\ req_count > max_requests + 1

\* if self.max_requests and req_count > self.max_requests
max_requests_exceeded == max_requests # 0 /\ req_count > max_requests

\* Mutant: the recorded parent is compared with itself.
parent_changed_self == ppid # ppid

\* elif self.ppid != os.getppid()
parent_changed == ppid # os_ppid

RECURSIVE SumAll(_)
SumAll(S) ==
    IF S = {} THEN 0
    ELSE LET s == CHOOSE x \in S : TRUE IN total_requests[s] + SumAll(S \ {s})

\* -------------------------------------------------------------- environment
\* The loop, or the nursery, still runs the protocols of the listeners.
Serving == Running /\ run_pc \in {"run_forever", "nursery", "unwind", "error_unwind"}

\* The protocol of a listener completes a request: state["total_requests"] += 1.
\* The request arrived on a connection the listener accepted.
RequestCompleted(s) ==
    /\ Serving
    /\ listener[s] \in {"listening", "draining"}
    /\ s \in accepted
    /\ SumAll(Sockets) < RequestCap
    /\ total_requests' = [total_requests EXCEPT ![s] = @ + 1]
    /\ UNCHANGED <<cfgVars, os_ppid, stateVars, servers, listener, accepted, createVars,
                   tickVars, run_pc, sig_task, proc, exit_status, histVars>>

\* Mutant: a closed server goes on accepting until its drain is over.
AcceptWhileDraining(s) ==
    /\ LoopActive \/ NurseryOpen
    /\ listener[s] \in {"listening", "draining"}
    /\ s \notin accepted
    /\ accepted' = accepted \cup {s}
    /\ UNCHANGED <<cfgVars, os_ppid, stateVars, servers, listener, total_requests,
                   createVars, tickVars, run_pc, sig_task, proc, exit_status, histVars>>

\* The server that create_server started on socket s accepts a connection.  It
\* accepts from the moment it listens until server.close() (asyncio) or the
\* cancellation of the nursery (trio), and only while its loop runs.  Only the
\* first accept on a socket is a step: the later ones change nothing.
Accept(s) ==
    /\ LoopActive \/ NurseryOpen
    /\ listener[s] = "listening"
    /\ s \notin accepted
    /\ accepted' = accepted \cup {s}
    /\ UNCHANGED <<cfgVars, os_ppid, stateVars, servers, listener, total_requests,
                   createVars, tickVars, run_pc, sig_task, proc, exit_status, histVars>>

\* The supervisor dies and the worker is re-parented.
ParentDies ==
    /\ Serving
    /\ os_ppid = ppid
    /\ os_ppid' = "init"
    /\ UNCHANGED <<cfgVars, stateVars, servers, listener, connVars, createVars,
                   tickVars, run_pc, sig_task, proc, exit_status, histVars>>

\* The in-flight connections of a closed server finish: wait_closed() resolves.
DrainComplete(s) ==
    /\ Running
    /\ listener[s] = "draining"
    /\ listener' = [listener EXCEPT ![s] = "closed"]
    /\ UNCHANGED <<cfgVars, os_ppid, stateVars, servers, connVars, createVars,
                   tickVars, run_pc, sig_task, proc, exit_status, histVars>>

\* ----------------------------------------------------------- create_servers
\* The `for sock in self.sockets` loop from socket i up to its next suspension:
\* create_server either raises or starts listening and suspends the coroutine.
\* An exception ends the asyncio task (nothing awaits it); in the trio worker it
\* leaves the nursery block, which cancels the nursery.
create_servers_from(i) ==
    IF i > NumSockets
    THEN /\ create_pc' = "done"
         /\ create_i' = i
         /\ UNCHANGED <<listener, run_pc>>
    ELSE \E raises \in BOOLEAN :
           IF raises
           THEN /\ create_pc' = "failed"
                /\ create_i' = i
                /\ run_pc' = (IF kind = "trio" THEN "error_unwind" ELSE run_pc)
                /\ UNCHANGED listener
           ELSE /\ create_pc' = "await"
                /\ create_i' = i
                /\ listener' = [listener EXCEPT ![i] = "listening"]
                /\ UNCHANGED run_pc

\* create_servers up to the first await: the TLS context (create_ssl_context
\* raises on bad material), then the first create_server call.
CreateBegin ==
    /\ LoopActive \/ NurseryOpen
    /\ create_pc = "init"
    /\ \E ssl_raises \in BOOLEAN :
         IF ssl_raises
         THEN /\ create_pc' = "failed"
              /\ create_i' = 0
              /\ run_pc' = (IF kind = "trio" THEN "error_unwind" ELSE run_pc)
              /\ UNCHANGED listener
         ELSE create_servers_from(1)
    /\ UNCHANGED <<cfgVars, os_ppid, stateVars, servers, connVars, tickVars,
                   sig_task, proc, exit_status, histVars>>

\* `await create_server(...)` returns: self.servers.append((server, state)),
\* then the loop goes on to the next socket.
CreateResume ==
    /\ LoopActive \/ NurseryOpen
    /\ create_pc = "await"
    /\ servers' = Append(servers, create_i)
    /\ create_servers_from(create_i + 1)
    /\ UNCHANGED <<cfgVars, os_ppid, stateVars, connVars, tickVars,
                   sig_task, proc, exit_status, histVars>>

\* --------------------------------------------------------- UvicornWorker.tick
\* `for server, state in self.servers: server.close(); await server.wait_closed()`
\* from index i of the (live) list up to the next suspension, and `loop.stop()`
\* when the list is exhausted.
drain_from(i) ==
    IF i <= Len(servers)
    THEN /\ listener' = [listener EXCEPT ![servers[i]] =
                            IF @ = "listening" THEN "draining" ELSE @]
         /\ closes' = [closes EXCEPT ![servers[i]] = @ + 1]
         /\ tick_pc' = "wait_closed"
         /\ drain_i' = i
         /\ UNCHANGED <<run_pc, stops>>
    ELSE /\ tick_pc' = "done"
         /\ drain_i' = i
         /\ run_pc' = "stopping"
         /\ stops' = stops + 1
         /\ UNCHANGED <<listener, closes>>

\* The tick task is resumed: it runs for the first time (after create_servers,
\* which run() scheduled before it, ran up to its first await) or its
\* asyncio.sleep(1) has expired.
TickResumes ==
    /\ kind = "asyncio" /\ Running /\ run_pc = "run_forever"
    /\ tick_pc \in {"start", "sleep"}
    /\ tick_pc = "start" => create_pc # "init"

\* Mutant: the heartbeat is sent one tick early.
notify_called_early == cycle' = NotifyPeriod - 1

\* `if cycle == 0: self.notify()`, on the cycle just computed.
notify_called == cycle' = 0

\* One iteration of `while self.alive`: protocol_class.tick(), the cycle count
\* (notify() when it wraps to 0), then the max-requests and parent checks.  A
\* check that sets alive = False falls through to the drain loop without await.
TickBody ==
    /\ TickResumes
    /\ alive
    /\ cycle' = (cycle + 1) % NotifyPeriod
    /\ notified' = notify_called
    /\ ticks' = (IF notify_called THEN 0
                 ELSE IF ticks < NotifyPeriod THEN ticks + 1 ELSE ticks)
    /\ IF max_requests_exceeded
       THEN alive' = FALSE /\ log' = "max_requests" /\ drain_from(1)
       ELSE IF parent_changed
       THEN alive' = FALSE /\ log' = "parent_changed" /\ drain_from(1)
       ELSE /\ tick_pc' = "sleep"
            /\ UNCHANGED <<alive, log, drain_i, listener, closes, run_pc, stops>>
    /\ UNCHANGED <<cfgVars, os_ppid, exit_code, killed, servers, connVars,
                   createVars, sig_task, proc, exit_status, sigHist>>

\* `while self.alive` finds alive False (a signal handler cleared it): the
\* drain loop starts.
TickLeavesLoop ==
    /\ TickResumes
    /\ ~alive
    /\ drain_from(1)
    /\ UNCHANGED <<cfgVars, os_ppid, stateVars, servers, connVars, createVars,
                   cycleVars, log, sig_task, proc, exit_status, sigHist>>

\* Mutant: the drain loop is entered again from the first server.
TickDrainRestarts ==
    /\ kind = "asyncio" /\ Running /\ run_pc = "run_forever"
    /\ tick_pc = "wait_closed"
    /\ listener[servers[drain_i]] = "closed"
    /\ drain_from(IF drain_i < Len(servers) THEN 1 ELSE drain_i + 1)
    /\ UNCHANGED <<cfgVars, os_ppid, stateVars, servers, connVars, createVars,
                   cycleVars, log, sig_task, proc, exit_status, sigHist>>

\* Mutant: the for loop goes on without waiting for the closed server.
TickDrainNoWait ==
    /\ kind = "asyncio" /\ Running /\ run_pc = "run_forever"
    /\ tick_pc = "wait_closed"
    /\ drain_from(drain_i + 1)
    /\ UNCHANGED <<cfgVars, os_ppid, stateVars, servers, connVars, createVars,
                   cycleVars, log, sig_task, proc, exit_status, sigHist>>

\* `await server.wait_closed()` returns: the for loop goes on.
TickDrainNext ==
    /\ kind = "asyncio" /\ Running /\ run_pc = "run_forever"
    /\ tick_pc = "wait_closed"
    /\ listener[servers[drain_i]] = "closed"
    /\ drain_from(drain_i + 1)
    /\ UNCHANGED <<cfgVars, os_ppid, stateVars, servers, connVars, createVars,
                   cycleVars, log, sig_task, proc, exit_status, sigHist>>

\* ------------------------------------------------ UvicornWorker signal path
\* The OS delivers sig and the event loop runs the callback add_signal_handler
\* registered for it.  The callback is a step of the loop like any other: what
\* the tasks do between the delivery and the callback is what they would have
\* done before a later delivery, so the two are one step of the model.  (A
\* signal delivered once loop.stop() has been called changes nothing: its
\* callback is queued for an iteration of the loop that never comes.)
\* The supervisor hook is the last statement of handle_quit / handle_abort: if
\* it raises, the assignments before it stand, the exception leaves the
\* callback and the loop, which reports it, runs on.
AsyncioSignal(sig) ==
    /\ LoopActive
    /\ LET w == asyncio_signals(sig, WorkerState)
       IN  /\ alive' = w.alive
           /\ exit_code' = w.exit_code
           /\ killed' = w.killed
    /\ abort_seen' = (abort_seen \/ sig = "SIGABRT")
    /\ abort_ran' = (abort_ran \/ sig = "SIGABRT")
    /\ \E hook_raises \in BOOLEAN : hook_raises => sig \in HookSignals
    /\ UNCHANGED <<cfgVars, os_ppid, servers, listener, connVars, createVars,
                   tickVars, run_pc, sig_task, proc, exit_status, closes, stops>>

\* loop.run_forever() returns once the batch in which loop.stop() ran is over;
\* sys.exit(self.exit_code).
RunForeverReturns ==
    /\ kind = "asyncio" /\ Running
    /\ run_pc = "stopping"
    /\ run_pc' = "returned"
    /\ proc' = "exited"
    /\ exit_status' = exit_code
    /\ UNCHANGED <<cfgVars, os_ppid, stateVars, servers, listener, connVars,
                   createVars, tickVars, sig_task, histVars>>

\* ------------------------------------------------------- UvicornTrioWorker
\* nursery.start_soon(self.handle_signals): the task enters catch_signals.
TrioSignalsStart ==
    /\ NurseryOpen
    /\ sig_task = "scheduled"
    /\ sig_task' = "running"
    /\ UNCHANGED <<cfgVars, os_ppid, stateVars, servers, listener, connVars,
                   createVars, tickVars, run_pc, proc, exit_status, histVars>>

\* The OS delivers the signals of `batch`; handle_signals receives them as one
\* batch and calls the handler of each member.
\* If the supervisor hook of one of them raises, the exception leaves the
\* `for signum in batch` loop and the handle_signals task: the handlers of the
\* members that come later in the iteration of the set (any of the others: the
\* order of a set is not specified) are not called, and the exception of the
\* child task cancels the nursery.
TrioSignalBatch(batch) ==
    /\ NurseryOpen
    /\ sig_task = "running"
    /\ abort_seen' = (abort_seen \/ "SIGABRT" \in batch)
    /\ \/ LET w == trio_run_batch(batch, WorkerState)
          IN  /\ alive' = w.alive
              /\ exit_code' = w.exit_code
              /\ killed' = w.killed
              /\ abort_ran' = (abort_ran \/ "SIGABRT" \in batch)
              /\ UNCHANGED <<run_pc, sig_task>>
       \/ \E failing \in batch \cap HookSignals :
          \E before \in SUBSET (batch \ {failing}) :
            LET called == before \cup {failing}
                w == trio_run_batch(called, WorkerState)
            IN  /\ alive' = w.alive
                /\ exit_code' = w.exit_code
                /\ killed' = w.killed
                /\ abort_ran' = (abort_ran \/ "SIGABRT" \in called)
                /\ sig_task' = "done"
                /\ run_pc' = "error_unwind"
    /\ UNCHANGED <<cfgVars, os_ppid, servers, listener, connVars, createVars,
                   tickVars, proc, exit_status, closes, stops>>

\* The OS delivers sig while the nursery is cancelled and handle_signals has not
\* left catch_signals yet: the task gets Cancelled instead of the batch, and the
\* handler does not run.
TrioSignalLost(sig) ==
    /\ kind = "trio" /\ Running
    /\ run_pc \in {"unwind", "error_unwind"}
    /\ sig_task = "running"
    /\ abort_seen' = (abort_seen \/ sig = "SIGABRT")
    /\ UNCHANGED <<cfgVars, os_ppid, stateVars, servers, listener, connVars,
                   createVars, tickVars, run_pc, sig_task, proc, exit_status,
                   abort_ran, closes, stops>>

\* main(): `await self.killed.wait()` returns; nursery.cancel_scope.cancel().
TrioKilled ==
    /\ NurseryOpen
    /\ create_pc = "done"
    /\ killed
    /\ run_pc' = "unwind"
    /\ stops' = stops + 1
    /\ UNCHANGED <<cfgVars, os_ppid, stateVars, servers, listener, connVars,
                   createVars, tickVars, sig_task, proc, exit_status,
                   sigHist, closes>>

Unwinding == kind = "trio" /\ Running /\ run_pc \in {"unwind", "error_unwind"}

\* The cancelled nursery unwinds the handle_signals task: catch_signals exits,
\* whatever was delivered and not dispatched is dropped.
TrioUnwindSignals ==
    /\ Unwinding
    /\ sig_task \in {"scheduled", "running"}
    /\ sig_task' = "done"
    /\ UNCHANGED <<cfgVars, os_ppid, stateVars, servers, listener, connVars,
                   createVars, tickVars, run_pc, proc, exit_status, histVars>>

\* The cancelled nursery unwinds the server task of a listener: it is closed.
TrioUnwindServer(s) ==
    /\ Unwinding
    /\ listener[s] = "listening"
    /\ listener' = [listener EXCEPT ![s] = "closed"]
    /\ closes' = [closes EXCEPT ![s] = @ + 1]
    /\ UNCHANGED <<cfgVars, os_ppid, stateVars, servers, connVars, createVars,
                   tickVars, run_pc, sig_task, proc, exit_status,
                   sigHist, stops>>

\* Mutant: trio.run returns while the signal task has not unwound.
TrioRunReturnsEarly ==
    /\ kind = "trio" /\ Running
    /\ run_pc = "unwind"
    /\ \A s \in Sockets : listener[s] # "listening"
    /\ run_pc' = "returned"
    /\ proc' = "exited"
    /\ exit_status' = exit_code
    /\ UNCHANGED <<cfgVars, os_ppid, stateVars, servers, listener, connVars,
                   createVars, tickVars, sig_task, histVars>>

\* Every child task has unwound: trio.run(main) returns;
\* sys.exit(self.exit_code).
TrioRunReturns ==
    /\ kind = "trio" /\ Running
    /\ run_pc = "unwind"
    /\ sig_task = "done"
    /\ \A s \in Sockets : listener[s] # "listening"
    /\ run_pc' = "returned"
    /\ proc' = "exited"
    /\ exit_status' = exit_code
    /\ UNCHANGED <<cfgVars, os_ppid, stateVars, servers, listener, connVars,
                   createVars, tickVars, sig_task, histVars>>

\* Every child task has unwound: trio.run(main) raises the exception that left
\* the nursery block, run() raises it too and sys.exit is skipped.
TrioRunRaises ==
    /\ kind = "trio" /\ Running
    /\ run_pc = "error_unwind"
    /\ sig_task = "done"
    /\ \A s \in Sockets : listener[s] # "listening"
    /\ run_pc' = "raised"
    /\ proc' = "crashed"
    /\ UNCHANGED <<cfgVars, os_ppid, stateVars, servers, listener, connVars,
                   createVars, tickVars, sig_task, exit_status, histVars>>

\* ------------------------------------------------------------------- Next
Batches == SUBSET Signals \ {{}}

Environment ==
    \/ \E s \in Sockets : Accept(s)
    \/ \E s \in Sockets : RequestCompleted(s)
    \/ ParentDies
    \/ \E s \in Sockets : DrainComplete(s)
    \/ \E sig \in Signals : TrioSignalLost(sig)

CreateTask == CreateBegin \/ CreateResume

TickTask == TickBody \/ TickLeavesLoop \/ TickDrainNext

SignalPath ==
    \/ \E sig \in Signals : AsyncioSignal(sig)
    \/ \E batch \in Batches : TrioSignalBatch(batch)

TrioTasks ==
    \/ TrioSignalsStart
    \/ TrioKilled
    \/ TrioUnwindSignals
    \/ \E s \in Sockets : TrioUnwindServer(s)

RunReturns == RunForeverReturns \/ TrioRunReturns \/ TrioRunRaises

Next == Environment \/ CreateTask \/ TickTask \/ SignalPath \/ TrioTasks \/ RunReturns

Spec == Init /\ [][Next]_vars

\* The scheduler runs every ready task, the timer of asyncio.sleep(1) expires
\* and the drain of every closed server completes.  The environment owes the
\* worker nothing: no signal, request or parent change has to happen.
FairSpec ==
    /\ Spec
    /\ WF_vars(CreateTask)
    /\ WF_vars(TickTask)
    /\ WF_vars(TrioTasks)
    /\ WF_vars(RunReturns)
    /\ WF_vars(\E s \in Sockets : DrainComplete(s))

\* ================================================================== claims
Exited == proc = "exited"

AllServersClosed == \A i \in 1..Len(servers) : listener[servers[i]] = "closed"

\* A step of the worker itself: a task, a callback of the loop other than a
\* signal handler, the completion of a drain, or the return of run().
WorkerStep ==
    \/ CreateTask \/ TickTask \/ TrioTasks \/ RunReturns
    \/ \E s \in Sockets : DrainComplete(s)

\* C1 (recycling trigger, UvicornWorker): a tick body that runs while the sum
\* of the listeners' total_requests exceeds a positive max_requests sets alive
\* to False and logs the max-requests reason; loop.stop() is called only once
\* every server of self.servers is closed and drained; and from any state in
\* which the requests of all started listeners together exceed the limit while
\* alive the worker comes to exit, with exit code 0 unless SIGABRT was delivered.
C1_RecyclingTrigger ==
    /\ [][(cycle' # cycle /\ max_requests > 0 /\ req_count > max_requests)
            => (~alive' /\ log' = "max_requests")]_vars
    /\ [][(kind = "asyncio" /\ stops' # stops) => AllServersClosed]_vars
    /\ (kind = "asyncio" /\ alive /\ max_requests > 0 /\ SumAll(Sockets) > max_requests)
         ~> (Exited /\ (exit_status = 0 \/ abort_seen))

C1_Witness ==
    /\ kind = "asyncio" /\ Exited /\ exit_status = 0
    /\ log = "max_requests"
    /\ Len(servers) = NumSockets
    /\ \A s \in Sockets : listener[s] = "closed"

\* C2 (orphan detection, UvicornWorker): a tick body that runs while
\* os.getppid() differs from the recorded ppid sets alive to False, whatever
\* the request count is, and from any state in which the parent has changed the
\* worker comes to exit, with no signal needed, and with exit code 0 unless
\* SIGABRT was delivered.
C2_OrphanDetection ==
    /\ [][(cycle' # cycle /\ ppid # os_ppid) => ~alive']_vars
    /\ (kind = "asyncio" /\ ppid # os_ppid)
         ~> (Exited /\ (exit_status = 0 \/ abort_seen))

C2_Witness ==
    /\ kind = "asyncio" /\ Exited /\ exit_status = 0
    /\ log = "parent_changed"
    /\ ~abort_seen
    /\ req_count > 0

\* C3 (abort path): a worker to which SIGABRT was delivered before its run
\* loop halted exits with alive False and exit code 1.
C3_AbortPath == (Exited /\ abort_seen) => (~alive /\ exit_status = 1)

\* C4 (clean stop): once alive is False the worker of either kind is brought
\* to a stop: as long as the process runs with alive False, the worker has a
\* step to take that no signal, request or parent change has to provide.
C4_CleanStop == (Running /\ ~alive) => ENABLED WorkerStep

\* C5 (idempotent shutdown): whatever shutdown requests arrive, the server of
\* each listener is closed at most once, loop.stop() / cancel_scope.cancel()
\* runs at most once, and a process that exits has halted its loop exactly
\* once and has one exit code, 0 or 1.
C5_IdempotentShutdown ==
    /\ \A s \in Sockets : closes[s] <= 1
    /\ stops <= 1
    /\ Exited => (stops = 1 /\ exit_status \in {0, 1})

C5_Witness ==
    /\ Exited /\ exit_status = 1
    /\ log # "none"
    /\ stops = 1
    /\ \A s \in Sockets : closes[s] = 1

\* C6 (equivalent workers): the two worker classes take the same shutdown
\* decisions; in particular, whichever class runs, a change of the parent
\* leads to alive = False (orphan detection), as it does for UvicornWorker,
\* unless the process has ended before.
C6_SameDecisions ==
    \A k \in Kinds : (kind = k /\ ppid # os_ppid) ~> (~alive \/ ~Running)

\* C7 (handlers unblock the main loop): a step in which the quit, interrupt or
\* abort handler runs leaves the main loop unblocked: the trio event is set,
\* and the tick task is not left in the asyncio.sleep(1) it was waiting in.
QuitOrAbortHandled ==
    \/ \E sig \in {"SIGQUIT", "SIGINT", "SIGABRT"} : AsyncioSignal(sig)
    \/ \E batch \in Batches :
         /\ batch \cap {"SIGQUIT", "SIGINT", "SIGABRT"} # {}
         /\ TrioSignalBatch(batch)

C7_HandlerUnblocksMainLoop ==
    [][QuitOrAbortHandled =>
         /\ kind = "trio" => killed'
         /\ kind = "asyncio" => tick_pc' # "sleep"]_vars

\* C8 (no listener left open): when the process exits, every listener that
\* create_servers started has been closed and drained.
C8_NoListenerLeftOpen ==
    Exited => \A s \in Sockets : listener[s] \in {"unstarted", "closed"}

\* C9 (startup failure is fatal): once create_servers has failed (TLS context
\* or a listener), the worker does not go on ticking: no tick body runs.
C9_StartupFailureFatal == [][create_pc = "failed" => cycle' = cycle]_vars

\* C10 (started listeners closed on failure): once the failure of
\* create_servers has propagated (the asyncio task has ended with it, the trio
\* nursery has unwound), no listener started in the same batch is still open.
C10_PrefixClosedOnFailure ==
    (create_pc = "failed" /\ run_pc # "error_unwind")
        => \A s \in Sockets : listener[s] # "listening"

\* C11 (signal-handler errors): a handler that fails (its supervisor hook
\* raises) does not take the signal-delivery path down: whatever the handlers
\* of a batch do, the step that dispatches the batch leaves the handle_signals
\* task running and the nursery open, ready for later signals.
C11_HandlerFailureContained ==
    [][(\E batch \in Batches : TrioSignalBatch(batch))
         => (sig_task' = "running" /\ run_pc' = "nursery")]_vars

\* C12 (exit code): a process that has ended has exit code 1 if and only if
\* the abort handler ran during its lifetime.
C12_ExitCodeIffAbort == ~Running => (exit_status = 1 <=> abort_ran)

\* The quit, interrupt, abort or terminate handler runs in this step.
ShutdownSignalHandled ==
    \/ \E sig \in {"SIGQUIT", "SIGINT", "SIGABRT", "SIGTERM"} : AsyncioSignal(sig)
    \/ \E batch \in Batches :
         /\ batch \cap {"SIGQUIT", "SIGINT", "SIGABRT", "SIGTERM"} # {}
         /\ TrioSignalBatch(batch)

\* The tick body detects max-requests or a changed parent in this step.
TickDetects == cycle' # cycle /\ log' # log

\* C13 as stated (one-way lifecycle): alive never goes from False back to
\* True, and it goes from True to False only in a step of the quit, interrupt
\* or abort handler or in a tick that detects max-requests or a changed parent.
C13_OneWayListedCauses ==
    [][/\ ~alive => ~alive'
       /\ (alive /\ ~alive') => (QuitOrAbortHandled \/ TickDetects)]_vars

\* C13 (one-way lifecycle), amended: alive never goes from False back to True,
\* and it goes from True to False only in a step of the quit, interrupt, abort
\* or terminate (SIGTERM, handle_exit) handler or in a tick that detects
\* max-requests or a changed parent.
C13_OneWayLifecycle ==
    [][/\ ~alive => ~alive'
       /\ (alive /\ ~alive') => (ShutdownSignalHandled \/ TickDetects)]_vars

\* SIGTERM alone was handled by the trio worker: alive is False, the event unset.
C13_Witness == kind = "trio" /\ Running /\ ~alive /\ ~killed /\ exit_code = 0

InServers(s) == \E i \in 1..Len(servers) : servers[i] = s

\* C15 (independent drains): once shutdown has started, no listener of the
\* worker waits for another one before it stops accepting: while alive is
\* False and the drain of some listener is awaited, no server of self.servers
\* accepts a connection.
C15_IndependentDrains ==
    [][\A s \in Sockets :
         (s \in accepted' /\ s \notin accepted /\ InServers(s))
            => ~(~alive /\ \E t \in Sockets : listener[t] = "draining")]_vars

\* C16 (stop after drain): once loop.stop() / cancel_scope.cancel() has run,
\* and once the process has ended, no listener that shutdown closed is still
\* draining.
C16_StopAfterDrain ==
    (stops > 0 \/ ~Running) => \A s \in Sockets : listener[s] # "draining"

C16_Witness ==
    /\ kind = "asyncio" /\ run_pc = "stopping" /\ tick_pc = "done"
    /\ \A s \in Sockets : closes[s] = 1 /\ listener[s] = "closed"
    /\ accepted = Sockets

\* C17 (lossless batches): when SIGABRT arrives in a batch, alone or with
\* other signals, the abort handler is invoked in the step that dispatches the
\* batch.
C17_BatchLossless ==
    [][\A batch \in Batches :
         ("SIGABRT" \in batch /\ ~abort_seen /\ TrioSignalBatch(batch))
            => abort_ran']_vars

\* C18 (heartbeat): a tick body runs only while alive, and it calls notify()
\* if and only if it is the 10th tick body since the last notify() (since the
\* start, for the first one); nothing else touches the heartbeat.
C18_HeartbeatEveryTenth ==
    /\ [][cycle' # cycle => (alive /\ (notified' <=> ticks + 1 = NotifyPeriod))]_vars
    /\ [][(notified' # notified \/ ticks' # ticks) => cycle' # cycle]_vars

C18_Witness == notified /\ ticks = 0 /\ cycle = 0 /\ tick_pc = "sleep" /\ alive

\* C19 (max-requests decision): a tick body logs the max-requests reason if
\* and only if max_requests is positive and the request count it computes is
\* strictly greater; it logs the parent-changed reason if and only if that is
\* not so and the parent has changed; and it sets alive to False exactly when
\* it logs one of the two.
C19_MaxRequestsDecision ==
    [][cycle' # cycle =>
         /\ log' = "max_requests" <=> (max_requests > 0 /\ req_count > max_requests)
         /\ log' = "parent_changed"
              <=> (~(max_requests > 0 /\ req_count > max_requests) /\ ppid # os_ppid)
         /\ ~alive' <=> log' # "none"]_vars

C19_Witness ==
    /\ log = "max_requests" /\ ~alive /\ tick_pc = "wait_closed"
    /\ req_count = max_requests + 1
    /\ ppid # os_ppid

\* C20 (trio: exit code after unwinding): sys.exit reads the exit code only
\* once cancel_scope.cancel() has run and the signal task and every server
\* task have unwound; an abort handler that ran is reflected in the exit code
\* sys.exit is given; and once the event is set the nursery comes to be
\* cancelled and trio.run to end.
C20_ExitAfterUnwind ==
    /\ [][(kind = "trio" /\ exit_status' # exit_status)
            => /\ stops = 1
               /\ sig_task = "done"
               /\ \A s \in Sockets : listener[s] \in {"unstarted", "closed"}]_vars
    /\ [](kind = "trio" /\ Exited /\ abort_ran => exit_status = 1)
    /\ (kind = "trio" /\ killed) ~> (run_pc # "nursery" /\ ~Running)

C20_Witness ==
    /\ kind = "trio" /\ Exited /\ exit_status = 1 /\ abort_ran
    /\ \A s \in Sockets : listener[s] = "closed" /\ s \in accepted

====
